---- MODULE Spec2Model ----
(***************************************************************************)
(* Model of the three repair scripts of the repository:                    *)
(*   fix_all_syntax.py, fix_json_stringify.py, fix_empty_logs.py           *)
(* Each script loads server/routes.ts, rewrites it in memory with regular  *)
(* expressions or string replacement, writes it back and prints one line.  *)
(*                                                                         *)
(* Text is a sequence of tokens.  A token is a piece of text that the      *)
(* patterns of the scripts never split: "console.log(", the wrapper        *)
(* "${JSON.stringify(", single punctuation characters and words.  On such  *)
(* text matching token by token is matching character by character.        *)
(***************************************************************************)
EXTENDS Integers, Sequences, FiniteSets, TLC

\* ------------------------------------------------------------------------
\* Tokens
\* ------------------------------------------------------------------------
CL == "console.log("
\* the backtick and the double quote cannot be written in a TLA+ string
BT == "<backtick>"
W  == "${JSON.stringify("
LP == "("
RP == ")"
RB == "}"
SP == " "
SC == ";"
NL == "\n"
Q  == "<dquote>"

\* ------------------------------------------------------------------------
\* Regular expressions (Python re: leftmost match, greedy with backtracking)
\* A pattern is a sequence of items: a literal token, or a negated
\* character class [^t] repeated greedily at least min times.
\* ------------------------------------------------------------------------
Lit(t)     == [kind |-> "lit", tok |-> t, min |-> 1]
NotPlus(t) == [kind |-> "not", tok |-> t, min |-> 1]
NotStar(t) == [kind |-> "not", tok |-> t, min |-> 0]

RECURSIVE Lits(_)
Lits(ts) == IF ts = <<>> THEN <<>> ELSE <<Lit(Head(ts))>> \o Lits(Tail(ts))

MinOf(S) == CHOOSE x \in S : \A y \in S : x <= y

\* length of the longest run of tokens other than t that starts at p
RunLen(s, p, t) ==
    LET stops == {q \in p..Len(s) : s[q] = t}
    IN  IF stops = {} THEN Len(s) - p + 1 ELSE MinOf(stops) - p

\* MatchFrom(pat, k, s, p): match items k.. of pat against s at position p.
\* <<>> when there is no match; otherwise the start position of every item
\* from k on, followed by the position after the match.
RECURSIVE MatchFrom(_, _, _, _)
RECURSIVE TryLen(_, _, _, _, _)
MatchFrom(pat, k, s, p) ==
    IF k > Len(pat) THEN <<p>>
    ELSE IF pat[k].kind = "lit"
         THEN IF p <= Len(s) /\ s[p] = pat[k].tok
              THEN LET r == MatchFrom(pat, k + 1, s, p + 1)
                   IN  IF r = <<>> THEN <<>> ELSE <<p>> \o r
              ELSE <<>>
         ELSE TryLen(pat, k, s, p, RunLen(s, p, pat[k].tok))

TryLen(pat, k, s, p, n) ==
    IF n < pat[k].min THEN <<>>
    ELSE LET r == MatchFrom(pat, k + 1, s, p + n)
         IN  IF r # <<>> THEN <<p>> \o r ELSE TryLen(pat, k, s, p, n - 1)

\* re.search from position `from`: the leftmost match, <<>> when none
RECURSIVE Search(_, _, _)
Search(pat, s, from) ==
    IF from > Len(s) + 1 THEN <<>>
    ELSE LET r == MatchFrom(pat, 1, s, from)
         IN  IF r # <<>> THEN r ELSE Search(pat, s, from + 1)

MatchStart(r) == r[1]
MatchEnd(r)   == r[Len(r)]
\* text matched by item j of the pattern (match.group for a class item)
Group(s, r, j) == SubSeq(s, r[j], r[j + 1] - 1)

\* all non-overlapping matches, left to right (re.sub / re.finditer)
RECURSIVE FindAll(_, _, _)
FindAll(pat, s, from) ==
    LET r == Search(pat, s, from)
    IN  IF r = <<>> THEN <<>> ELSE <<r>> \o FindAll(pat, s, MatchEnd(r))

\* A replacement template is a sequence of items: [g |-> 0, tok |-> t] is
\* the literal token t, [g |-> j] with j > 0 is the text of pattern item j.
TplTok(t)   == [g |-> 0, tok |-> t]
TplGroup(j) == [g |-> j, tok |-> ""]

RECURSIVE Expand(_, _, _)
Expand(tpl, s, r) ==
    IF tpl = <<>> THEN <<>>
    ELSE (IF Head(tpl).g = 0 THEN <<Head(tpl).tok>> ELSE Group(s, r, Head(tpl).g))
         \o Expand(Tail(tpl), s, r)

RECURSIVE SubWith(_, _, _, _)
SubWith(tpl, s, ms, pos) ==
    IF ms = <<>> THEN SubSeq(s, pos, Len(s))
    ELSE SubSeq(s, pos, MatchStart(Head(ms)) - 1)
         \o Expand(tpl, s, Head(ms))
         \o SubWith(tpl, s, Tail(ms), MatchEnd(Head(ms)))

\* re.sub(pat, tpl, s)
ReSub(pat, tpl, s) == SubWith(tpl, s, FindAll(pat, s, 1), 1)

RECURSIVE Toks(_)
Toks(ts) == IF ts = <<>> THEN <<>> ELSE <<TplTok(Head(ts))>> \o Toks(Tail(ts))

\* `old in s`  and  s.replace(old, new)  for token sequences old, new
Contains(s, old)     == Search(Lits(old), s, 1) # <<>>
StrReplace(s, old, new) == ReSub(Lits(old), Toks(new), s)

\* ------------------------------------------------------------------------
\* fix_all_syntax.py
\* ------------------------------------------------------------------------
\* content.split('\n')
RECURSIVE Split(_)
Split(c) ==
    LET n == RunLen(c, 1, NL)
    IN  IF n = Len(c) THEN <<c>>
        ELSE <<SubSeq(c, 1, n)>> \o Split(SubSeq(c, n + 2, Len(c)))

\* '\n'.join(ls)
RECURSIVE Join(_)
Join(ls) ==
    IF ls = <<>> THEN <<>>
    ELSE IF Len(ls) = 1 THEN ls[1]
    ELSE ls[1] \o <<NL>> \o Join(Tail(ls))

\* console\.log\(`\$\{JSON\.stringify\(`([^`]+)`\)\} \$\{JSON\.stringify\(([^)]+)\)\}`\);
\* group 1 is item 5, group 2 is item 11
DoublePat ==
    Lits(<<CL, BT, W, BT>>) \o <<NotPlus(BT)>> \o Lits(<<BT, RP, RB, SP, W>>)
    \o <<NotPlus(RP)>> \o Lits(<<RP, RB, BT, RP, SC>>)

\* console\.log\(`\$\{JSON\.stringify\(`([^`]+)`\)\}`\);   group 1 is item 5
SinglePat ==
    Lits(<<CL, BT, W, BT>>) \o <<NotPlus(BT)>> \o Lits(<<BT, RP, RB, BT, RP, SC>>)

\* \$\{JSON\.stringify\(`([^`]+)`\)\}      group 1 is item 3
ResidualLitPat == Lits(<<W, BT>>) \o <<NotPlus(BT)>> \o Lits(<<BT, RP, RB>>)

\* \$\{JSON\.stringify\(([^)]+)\)\}        group 1 is item 2
ResidualExprPat == Lits(<<W>>) \o <<NotPlus(RP)>> \o Lits(<<RP, RB>>)

\* the six spaces the f-strings put before the rebuilt statement
Indent == <<SP, SP, SP, SP, SP, SP>>

\* match.group(2).replace('`)}', '').replace('`', '')
CleanExpr(g) == StrReplace(StrReplace(g, <<BT, RP, RB>>, <<>>), <<BT>>, <<>>)

\* lines 12-26: the rebuilt statement, or the line itself
RebuildLine(line) ==
    IF Contains(line, <<CL, BT, W>>)
    THEN IF Contains(line, <<RP, RB, SP, W>>)
         THEN LET m == Search(DoublePat, line, 1)
              IN  IF m # <<>>
                  THEN Indent \o <<CL, BT>> \o Group(line, m, 5) \o <<SP>>
                       \o CleanExpr(Group(line, m, 11)) \o <<BT, RP, SC>>
                  ELSE line
         ELSE LET m == Search(SinglePat, line, 1)
              IN  IF m # <<>>
                  THEN Indent \o <<CL, BT>> \o Group(line, m, 5) \o <<BT, RP, SC>>
                  ELSE line
    ELSE line

\* lines 29-30: the catch-all substitutions
StripResidual(line) ==
    ReSub(ResidualExprPat, <<TplGroup(2)>>,
          ReSub(ResidualLitPat, <<TplGroup(3)>>, line))

\* the body of the loop for one line
FixSyntaxLine(line) == StripResidual(RebuildLine(line))

\* ------------------------------------------------------------------------
\* fix_json_stringify.py
\* ------------------------------------------------------------------------
\* console\.log\(`\$\{JSON\.stringify\([^)]*\)\}[^`]*`\);
JsonPat ==
    Lits(<<CL, BT, W>>) \o <<NotStar(RP)>> \o Lits(<<RP, RB>>)
    \o <<NotStar(BT)>> \o Lits(<<BT, RP, SC>>)

\* `([^`]+)`\)\}[^`]*`      group 1 is item 2
LeftoverPat ==
    Lits(<<BT>>) \o <<NotPlus(BT)>> \o Lits(<<BT, RP, RB>>)
    \o <<NotStar(BT)>> \o Lits(<<BT>>)

fix_console_log(text) ==
    LET t1 == ReSub(Lits(<<W>>), <<>>, text)
        t2 == ReSub(Lits(<<RP, RB>>), <<>>, t1)
    IN  ReSub(LeftoverPat, <<TplTok(BT), TplGroup(2), TplTok(BT)>>, t2)

\* re.sub(pattern, fix_console_log, content)
RECURSIVE SubFix(_, _, _)
SubFix(s, ms, pos) ==
    IF ms = <<>> THEN SubSeq(s, pos, Len(s))
    ELSE SubSeq(s, pos, MatchStart(Head(ms)) - 1)
         \o fix_console_log(SubSeq(s, MatchStart(Head(ms)), MatchEnd(Head(ms)) - 1))
         \o SubFix(s, Tail(ms), MatchEnd(Head(ms)))

\* console\.log\(`\$\{JSON\.stringify\(`([^`]+)`\)\} \$\{JSON\.stringify\(([^)]+)\)`\)\}`\);
SpecificPat ==
    Lits(<<CL, BT, W, BT>>) \o <<NotPlus(BT)>> \o Lits(<<BT, RP, RB, SP, W>>)
    \o <<NotPlus(RP)>> \o Lits(<<RP, BT, RP, RB, BT, RP, SC>>)

FixJsonStringify(c) ==
    ReSub(SpecificPat,
          Toks(<<CL, BT>>) \o <<TplGroup(5), TplTok(SP), TplGroup(11)>> \o Toks(<<BT, RP, SC>>),
          SubFix(c, FindAll(JsonPat, c, 1), 1))

\* ------------------------------------------------------------------------
\* fix_empty_logs.py
\* ------------------------------------------------------------------------
\* f.readlines(): the lines of c, each with its line terminator
RECURSIVE ReadLines(_)
ReadLines(c) ==
    IF c = <<>> THEN <<>>
    ELSE LET n == RunLen(c, 1, NL)
         IN  IF n = Len(c) THEN <<c>>
             ELSE <<SubSeq(c, 1, n + 1)>> \o ReadLines(SubSeq(c, n + 2, Len(c)))

\* f.writelines(ls)
RECURSIVE WriteLines(_)
WriteLines(ls) == IF ls = <<>> THEN <<>> ELSE Head(ls) \o WriteLines(Tail(ls))

EmptyCall == <<CL, RP>>
MsgOk     == <<CL, Q, "Operation completed successfully", Q, RP>>
MsgErr    == <<CL, Q, "Error", SP, "logged", Q, RP>>
MsgProc   == <<CL, Q, "Processing...", Q, RP>>

\* str.lower() of one token
LowerTok(t) ==
    CASE t \in {"Error", "ERROR"}  -> "error"
      [] t \in {"Fail", "FAIL"}    -> "fail"
      [] t = "Found"               -> "found"
      [] t = "Created"             -> "created"
      [] t = "Updated"             -> "updated"
      [] t = "Operation completed successfully" -> "operation completed successfully"
      [] t = "Processing..."       -> "processing..."
      [] OTHER                     -> t

Lower(s) == [k \in 1..Len(s) |-> LowerTok(s[k])]

\* MessageAfter without the test for 'Updated'
MessageAfter_NoUpdated(prev_line) ==
    IF Contains(prev_line, <<"Found">>) \/ Contains(prev_line, <<"Created">>)
    THEN MsgOk
    ELSE IF Contains(Lower(prev_line), <<"error">>) \/ Contains(Lower(prev_line), <<"fail">>)
    THEN MsgErr
    ELSE MsgProc

\* MessageAfter without .lower()
MessageAfter_CaseSensitive(prev_line) ==
    IF Contains(prev_line, <<"Found">>) \/ Contains(prev_line, <<"Created">>)
       \/ Contains(prev_line, <<"Updated">>)
    THEN MsgOk
    ELSE IF Contains(prev_line, <<"error">>) \/ Contains(prev_line, <<"fail">>)
    THEN MsgErr
    ELSE MsgProc

\* lines 12-17: the message chosen from the preceding line
MessageAfter(prev_line) ==
    IF Contains(prev_line, <<"Found">>) \/ Contains(prev_line, <<"Created">>)
       \/ Contains(prev_line, <<"Updated">>)
    THEN MsgOk
    ELSE IF Contains(Lower(prev_line), <<"error">>) \/ Contains(Lower(prev_line), <<"fail">>)
    THEN MsgErr
    ELSE MsgProc

\* the body of the loop for line k of ls (lines 7-19)
FixEmptyLogLine(ls, k) ==
    IF Contains(ls[k], EmptyCall)
    THEN [ls EXCEPT ![k] =
            StrReplace(ls[k], EmptyCall,
                       IF k > 1 THEN MessageAfter(ls[k - 1]) ELSE MsgProc)]
    ELSE ls

\* ------------------------------------------------------------------------
\* Contents of server/routes.ts the runs start from
\* ------------------------------------------------------------------------
MaxSyntaxLines == 2     \* lines of a file given to the two wrapper scripts
MaxLogLines    == 3     \* lines of a file given to fix_empty_logs.py
MaxCallDepth   == 1     \* nesting of calls in a wrapped expression
MaxRuns        == 2     \* runs of the script on the same file

\* sequences over S of length 1..n
RECURSIVE SeqsUpTo(_, _)
SeqsUpTo(S, n) ==
    IF n = 0 THEN {}
    ELSE LET shorter == SeqsUpTo(S, n - 1)
         IN  {<<e>> : e \in S} \cup shorter \cup {sq \o <<e>> : sq \in shorter, e \in S}

\* expression texts: plain accesses, and calls f(e) nested up to depth d
RECURSIVE Exprs(_)
Exprs(d) ==
    IF d = 0 THEN {<<"user.id">>, <<"x">>}
    ELSE Exprs(d - 1) \cup {<<"f", LP>> \o e \o <<RP>> : e \in Exprs(d - 1)}

\* literal texts without a backtick
LitTexts == {<<"Found", SP, "user">>, <<"x">>, <<"a", RP, SP, "b">>}

Wrapped(e)          == <<W>> \o e \o <<RP, RB>>
WrappedLit(l)       == Wrapped(<<BT>> \o l \o <<BT>>)
LogStmt(body)       == <<CL, BT>> \o body \o <<BT, RP, SC>>
DoubleWrapped(l, e) == LogStmt(WrappedLit(l) \o <<SP>> \o Wrapped(e))
SingleWrapped(t)    == LogStmt(WrappedLit(t))

SyntaxLines ==
    {DoubleWrapped(l, e) : l \in LitTexts, e \in Exprs(MaxCallDepth)}
    \cup {SingleWrapped(t) : t \in LitTexts}
    \cup {SingleWrapped(<<"a">>) \o <<SP>> \o SingleWrapped(<<"b">>),
          SingleWrapped(<<"a">>) \o <<SP>> \o DoubleWrapped(<<"b">>, <<"x">>),
          <<SP, SP>> \o SingleWrapped(<<"a">>) \o <<SP, "//", SP, "x">>}
       \* the second fragment closed as in the comment of fix_all_syntax.py
       \* and as in the last pattern of fix_json_stringify.py
    \cup {LogStmt(WrappedLit(<<"a">>) \o <<SP, W, "x", BT, RP, RB>>),
          LogStmt(WrappedLit(<<"a">>) \o <<SP, W, "x", RP, BT, RP, RB>>),
          LogStmt(WrappedLit(Wrapped(<<"a">>)) \o <<SP, W, "x", RP, BT, RP, RB>>)}
    \cup {<<"x", SP>> \o Wrapped(<<"a">>),
          Wrapped(Wrapped(<<"a">>)),
          <<"x", SP>> \o WrappedLit(<<"a">>) \o <<SC>>}
    \cup {<<>>, <<"x", SP, "=", SP, "f", LP, "x", RP, SC>>, LogStmt(<<"a">>)}

SyntaxContents ==
    {<<>>} \cup {Join(ls) : ls \in SeqsUpTo(SyntaxLines, MaxSyntaxLines)}

LogLines ==
    {<<CL, RP, SC>>,
     <<CL, RP, SC, SP, CL, RP, SC>>,
     <<CL, Q, "Created", SP, "record", Q, RP, SC>>,
     <<"Found", SP, "user">>,
     <<"Updated">>,
     <<"x", SP, "error">>,
     <<"ERROR", SP, "Found">>,
     <<"Fail">>,
     <<CL, RP, SC, SP, "//", SP, "error">>,
     <<"found">>,
     <<"x">>}

\* every line ends with a newline, the last one possibly not
LogContents ==
    {<<>>} \cup {Join(ls) \o <<NL>> : ls \in SeqsUpTo(LogLines, MaxLogLines)}
           \cup {Join(ls) : ls \in SeqsUpTo(LogLines, MaxLogLines)}

Scripts == {"fix_all_syntax", "fix_json_stringify", "fix_empty_logs"}

Contents(sc) == IF sc = "fix_empty_logs" THEN LogContents ELSE SyntaxContents

\* the line each script prints last
Confirmation(sc) ==
    CASE sc = "fix_all_syntax"     -> "Fixed all syntax errors"
      [] sc = "fix_json_stringify" -> "Fixed all JSON.stringify errors"
      [] sc = "fix_empty_logs"     -> "Fixed all empty console.log() statements"

\* ------------------------------------------------------------------------
\* The runs
\* ------------------------------------------------------------------------
VARIABLES
    script,         \* the script that is run
    file,           \* content of server/routes.ts
    pc,             \* position in the script
    content,        \* fix_all_syntax, fix_json_stringify: content
    lines,          \* fix_all_syntax, fix_empty_logs: lines
    fixed_lines,    \* fix_all_syntax: fixed_lines
    fixed_content,  \* fix_json_stringify: fixed_content
    i,              \* index of the next line of the loop (from 1)
    trace,          \* what the run did so far: "read", "write", line printed
    run,            \* number of the run
    input,          \* history: the file before the first run
    before          \* history: the file when the current run started

vars == <<script, file, pc, content, lines, fixed_lines, fixed_content, i,
          trace, run, input, before>>

Init ==
    /\ script \in Scripts
    /\ file \in Contents(script)
    /\ pc = "start"
    /\ content = <<>>
    /\ lines = <<>>
    /\ fixed_lines = <<>>
    /\ fixed_content = <<>>
    /\ i = 1
    /\ trace = <<>>
    /\ run = 1
    /\ input = file
    /\ before = file

\* with open('server/routes.ts', 'r') as f: f.read() / f.readlines()
Load ==
    /\ pc = "start"
    /\ trace' = Append(trace, "read")
    /\ IF script = "fix_empty_logs"
       THEN /\ lines' = ReadLines(file)
            /\ content' = content
            /\ pc' = "loop"
       ELSE /\ content' = file
            /\ IF script = "fix_all_syntax"
               THEN lines' = Split(file) /\ pc' = "loop"
               ELSE lines' = lines /\ pc' = "loaded"
    /\ i' = 1
    /\ fixed_lines' = <<>>
    /\ UNCHANGED <<script, file, fixed_content, run, input, before>>

\* the open or the read raises: the script ends with the uncaught error
LoadFail ==
    /\ pc = "start"
    /\ pc' = "crashed"
    /\ UNCHANGED <<script, file, content, lines, fixed_lines, fixed_content, i,
                   trace, run, input, before>>

\* fix_all_syntax.py, one iteration of the loop
SyntaxLine ==
    /\ script = "fix_all_syntax"
    /\ pc = "loop"
    /\ i <= Len(lines)
    /\ fixed_lines' = Append(fixed_lines, FixSyntaxLine(lines[i]))
    /\ i' = i + 1
    /\ UNCHANGED <<script, file, pc, content, lines, fixed_content, trace, run,
                   input, before>>

\* fix_empty_logs.py, one iteration of the loop
EmptyLogLine ==
    /\ script = "fix_empty_logs"
    /\ pc = "loop"
    /\ i <= Len(lines)
    /\ lines' = FixEmptyLogLine(lines, i)
    /\ i' = i + 1
    /\ UNCHANGED <<script, file, pc, content, fixed_lines, fixed_content, trace,
                   run, input, before>>

\* fix_json_stringify.py, the two substitutions
FixJson ==
    /\ script = "fix_json_stringify"
    /\ pc = "loaded"
    /\ fixed_content' = FixJsonStringify(content)
    /\ pc' = "fixed"
    /\ UNCHANGED <<script, file, content, lines, fixed_lines, i, trace, run,
                   input, before>>

ReadyToSave ==
    \/ script = "fix_json_stringify" /\ pc = "fixed"
    \/ script # "fix_json_stringify" /\ pc = "loop" /\ i > Len(lines)

\* Output with ''.join(fixed_lines) in fix_all_syntax.py
Output_NoNewline ==
    CASE script = "fix_all_syntax"     -> WriteLines(fixed_lines)
      [] script = "fix_json_stringify" -> fixed_content
      [] script = "fix_empty_logs"     -> WriteLines(lines)

\* what the script passes to f.write / f.writelines
Output ==
    CASE script = "fix_all_syntax"     -> Join(fixed_lines)
      [] script = "fix_json_stringify" -> fixed_content
      [] script = "fix_empty_logs"     -> WriteLines(lines)

\* with open('server/routes.ts', 'w') as f: f.write(...) / f.writelines(...)
Save ==
    /\ ReadyToSave
    /\ file' = Output
    /\ trace' = Append(trace, "write")
    /\ pc' = "saved"
    /\ UNCHANGED <<script, content, lines, fixed_lines, fixed_content, i, run,
                   input, before>>

\* SaveFail of a script that prints its last line in a finally clause
SaveFail_Prints ==
    /\ ReadyToSave
    /\ file' \in {file, <<>>}
    /\ trace' = Append(trace, Confirmation(script))
    /\ pc' = "crashed"
    /\ UNCHANGED <<script, content, lines, fixed_lines, fixed_content, i, run,
                   input, before>>

\* the open raises (the file keeps its content) or the write raises after
\* the open has truncated the file
SaveFail ==
    /\ ReadyToSave
    /\ file' \in {file, <<>>}
    /\ pc' = "crashed"
    /\ UNCHANGED <<script, content, lines, fixed_lines, fixed_content, i, trace,
                   run, input, before>>

\* Report that prints the line twice
Report_Twice ==
    /\ pc = "saved"
    /\ trace' = trace \o <<Confirmation(script), Confirmation(script)>>
    /\ pc' = "done"
    /\ UNCHANGED <<script, file, content, lines, fixed_lines, fixed_content, i,
                   run, input, before>>

\* print(...)
Report ==
    /\ pc = "saved"
    /\ trace' = Append(trace, Confirmation(script))
    /\ pc' = "done"
    /\ UNCHANGED <<script, file, content, lines, fixed_lines, fixed_content, i,
                   run, input, before>>

\* the script is started again on the file the previous run has written
Rerun ==
    /\ pc = "done"
    /\ run < MaxRuns
    /\ run' = run + 1
    /\ before' = file
    /\ pc' = "start"
    /\ content' = <<>>
    /\ lines' = <<>>
    /\ fixed_lines' = <<>>
    /\ fixed_content' = <<>>
    /\ i' = 1
    /\ trace' = <<>>
    /\ UNCHANGED <<script, file, input>>

Next ==
    \/ Load
    \/ LoadFail
    \/ SyntaxLine
    \/ EmptyLogLine
    \/ FixJson
    \/ Save
    \/ SaveFail
    \/ Report
    \/ Rerun

Spec == Init /\ [][Next]_vars

TypeOK ==
    /\ script \in Scripts
    /\ pc \in {"start", "loaded", "loop", "fixed", "saved", "done", "crashed"}
    /\ run \in 1..MaxRuns
\* ------------------------------------------------------------------------
\* Properties
\* ------------------------------------------------------------------------
\* the first run has ended with its confirmation line
FirstRunDone(sc) == script = sc /\ pc = "done" /\ run = 1

HasToken(l, ws) == \E j \in 1..Len(l) : l[j] \in ws

SuccessWords == {"Found", "Created", "Updated"}
ErrorWords   == {"error", "Error", "ERROR", "fail", "Fail", "FAIL"}

RECURSIVE StripLeft(_)
StripLeft(l) == IF l # <<>> /\ Head(l) = SP THEN StripLeft(Tail(l)) ELSE l

ExampleLine == DoubleWrapped(<<"Found", SP, "user">>, <<"user.id">>)
ExampleFlat == LogStmt(<<"Found", SP, "user", SP, "user.id">>)

\* C1: fix_all_syntax.py turns every line console.log(`${JSON.stringify(`L`)}
\* ${JSON.stringify(E)}`); with L a literal text and E an expression text,
\* a plain access or a call, into the flat statement console.log(`L E`);
\* (leading indentation aside) with no ${JSON.stringify( left in the line.
C1_DoubleWrappedFlattened ==
    FirstRunDone("fix_all_syntax") =>
        \A k \in 1..Len(Split(input)) :
            \A l \in LitTexts, e \in Exprs(MaxCallDepth) :
                Split(input)[k] = DoubleWrapped(l, e) =>
                    /\ StripLeft(Split(file)[k]) = LogStmt(l \o <<SP>> \o e)
                    /\ ~ HasToken(Split(file)[k], {W})

\* C2: a file that is exactly the line console.log(`${JSON.stringify(`Found
\* user`)} ${JSON.stringify(user.id)}`); is written back by fix_all_syntax.py
\* and by fix_json_stringify.py as exactly console.log(`Found user user.id`);
C2_ExampleExact ==
    (pc = "done" /\ run = 1 /\ script \in {"fix_all_syntax", "fix_json_stringify"}
        /\ input = ExampleLine)
    => file = ExampleFlat

\* C3: fix_all_syntax.py: for every line that contains
\* console.log(`${JSON.stringify(`T`)}`); the output line contains
\* console.log(`T`);
C3_SingleWrappedFlattened ==
    FirstRunDone("fix_all_syntax") =>
        \A k \in 1..Len(Split(input)) :
            \A t \in LitTexts \cup {<<"a">>, <<"b">>} :
                Contains(Split(input)[k], SingleWrapped(t)) =>
                    Contains(Split(file)[k], LogStmt(t))

\* C4: fix_empty_logs.py: on a line after the first that contains
\* console.log() and whose preceding input line contains Found, Created or
\* Updated, every console.log() becomes
\* console.log("Operation completed successfully").
C4_SuccessMessage ==
    FirstRunDone("fix_empty_logs") =>
        \A k \in 2..Len(ReadLines(input)) :
            (/\ Contains(ReadLines(input)[k], EmptyCall)
             /\ HasToken(ReadLines(input)[k - 1], SuccessWords))
            => /\ ReadLines(file)[k] = StrReplace(ReadLines(input)[k], EmptyCall, MsgOk)
               /\ ~ Contains(ReadLines(file)[k], EmptyCall)
               /\ Contains(ReadLines(file)[k], MsgOk)

C4_Witness ==
    /\ FirstRunDone("fix_empty_logs")
    /\ input = <<CL, Q, "Created", SP, "record", Q, RP, SC, NL, CL, RP, SC, NL>>
    /\ file = <<CL, Q, "Created", SP, "record", Q, RP, SC, NL>> \o MsgOk \o <<SC, NL>>

\* C5 as stated: fix_empty_logs.py: on a line after the first that contains
\* console.log() and whose preceding line contains error or fail in any
\* letter case, whatever else that line contains, the empty call becomes
\* console.log("Error logged").
C5_ErrorMessageAlways ==
    FirstRunDone("fix_empty_logs") =>
        \A k \in 2..Len(ReadLines(input)) :
            (/\ Contains(ReadLines(input)[k], EmptyCall)
             /\ HasToken(ReadLines(input)[k - 1], ErrorWords))
            => ReadLines(file)[k] = StrReplace(ReadLines(input)[k], EmptyCall, MsgErr)

\* C5 amended: fix_empty_logs.py: on a line after the first that contains
\* console.log() and whose preceding line contains error or fail in any
\* letter case and none of Found, Created, Updated, the empty call becomes
\* console.log("Error logged").
C5_ErrorMessage ==
    FirstRunDone("fix_empty_logs") =>
        \A k \in 2..Len(ReadLines(input)) :
            (/\ Contains(ReadLines(input)[k], EmptyCall)
             /\ HasToken(ReadLines(input)[k - 1], ErrorWords)
             /\ ~ HasToken(ReadLines(input)[k - 1], SuccessWords))
            => /\ ReadLines(file)[k] = StrReplace(ReadLines(input)[k], EmptyCall, MsgErr)
               /\ ~ Contains(ReadLines(file)[k], EmptyCall)
               /\ Contains(ReadLines(file)[k], MsgErr)

C5_Witness ==
    /\ FirstRunDone("fix_empty_logs")
    /\ input = <<"Fail", NL, CL, RP, SC, NL>>
    /\ file = <<"Fail", NL>> \o MsgErr \o <<SC, NL>>

\* C6: fix_empty_logs.py: on a line that contains console.log() and is the
\* first line, or whose preceding line of the input contains none of Found,
\* Created, Updated and neither error nor fail in any letter case, the
\* empty call becomes console.log("Processing...").
C6_ProcessingMessage ==
    FirstRunDone("fix_empty_logs") =>
        \A k \in 1..Len(ReadLines(input)) :
            (/\ Contains(ReadLines(input)[k], EmptyCall)
             /\ \/ k = 1
                \/ /\ ~ HasToken(ReadLines(input)[k - 1], SuccessWords)
                   /\ ~ HasToken(ReadLines(input)[k - 1], ErrorWords))
            => ReadLines(file)[k] = StrReplace(ReadLines(input)[k], EmptyCall, MsgProc)

\* C7: for each of the three scripts a second run on the file written by the
\* first run writes back the same content.
C7_Idempotent ==
    (pc = "done" /\ run = 2) => file = before

\* C8: fix_empty_logs.py leaves every line without console.log() and
\* fix_all_syntax.py every line without ${JSON.stringify( unchanged at its
\* position; number and order of the lines are kept, and a file without
\* either signature is written back as it was read.
C8_OtherLinesUntouched ==
    /\ FirstRunDone("fix_empty_logs") =>
        /\ Len(ReadLines(file)) = Len(ReadLines(input))
        /\ \A k \in 1..Len(ReadLines(input)) :
               ~ Contains(ReadLines(input)[k], EmptyCall)
               => ReadLines(file)[k] = ReadLines(input)[k]
        /\ ~ Contains(input, EmptyCall) => file = input
    /\ FirstRunDone("fix_all_syntax") =>
        /\ Len(Split(file)) = Len(Split(input))
        /\ \A k \in 1..Len(Split(input)) :
               ~ HasToken(Split(input)[k], {W})
               => Split(file)[k] = Split(input)[k]
        /\ ~ HasToken(input, {W}) => file = input

\* a two-line file whose first line is repaired and whose second is not
C8_Witness ==
    /\ FirstRunDone("fix_all_syntax")
    /\ input = SingleWrapped(<<"x">>) \o <<NL, "x", SP, "=", SP, "f", LP, "x", RP, SC>>
    /\ file = Indent \o LogStmt(<<"x">>) \o <<NL, "x", SP, "=", SP, "f", LP, "x", RP, SC>>

FullTrace == <<"read", "write", Confirmation(script)>>

\* C9: every run reads the file once before any write, writes it once with
\* the whole transformed content and then prints its one confirmation line,
\* also when nothing matched; no step is repeated.
C9_LinearRun ==
    /\ \E n \in 0..3 : trace = SubSeq(FullTrace, 1, n)
    /\ (pc \in {"loaded", "loop", "fixed"}) => (trace = <<"read">> /\ file = before)
    /\ (pc = "loaded") => content = before
    /\ (pc = "loop" /\ i = 1 /\ script = "fix_all_syntax") => Join(lines) = before
    /\ (pc = "loop" /\ i = 1 /\ script = "fix_empty_logs") => WriteLines(lines) = before
    /\ (pc = "saved") => (trace = <<"read", "write">> /\ file = Output)
    /\ (pc = "done") => (trace = FullTrace /\ file = Output)

\* a finished run in which nothing matched
C9_Witness ==
    /\ pc = "done"
    /\ trace = FullTrace
    /\ file = before
    /\ file # <<>>
    /\ run = 1

\* C10: a run whose read fails ends without writing the file and without
\* the confirmation line; a run whose write fails ends without the
\* confirmation line; the line is printed only after a completed write; a
\* run that has failed does nothing more.
C10_FailureHandling ==
    /\ [](/\ (pc = "crashed") => ~ HasToken(trace, {Confirmation(script)})
          /\ (pc = "crashed" /\ trace = <<>>) => file = before
          /\ \A j \in 1..Len(trace) :
                 trace[j] = Confirmation(script)
                 => \E m \in 1..(j - 1) : trace[m] = "write")
    /\ [][pc = "crashed" => UNCHANGED vars]_vars

\* the write has failed after the file was truncated
C10_Witness ==
    /\ pc = "crashed"
    /\ trace = <<"read">>
    /\ file = <<>>
    /\ before # <<>>
====
